---- MODULE Spec2Model ----
(***************************************************************************)
(* A model of the affordability / funding-decision engine of               *)
(* fiscal-fortress: the Express routes of server/routes.ts over the        *)
(* record store of server/storage.ts and shared/schema.ts.                 *)
(*                                                                         *)
(* Money is stored as decimal(10,2); the model keeps a stored amount as an *)
(* integer number of cents.  The routes turn every amount into a JavaScript*)
(* number with parseFloat and compute with IEEE-754 doubles, so the model  *)
(* does the same: a double is kept exactly, as a sign and a magnitude in   *)
(* units of 2^-60 held in three 24-bit limbs, and every operation rounds   *)
(* to 53 significant bits, ties to even.                                    *)
(***************************************************************************)
EXTENDS Integers, Sequences, FiniteSets, TLC

\* ------------------------------------------------------------------------
\* IEEE-754 double arithmetic (the JavaScript number type)
\* ------------------------------------------------------------------------

\* One limb of a magnitude holds 24 bits.
Limb == 2 ^ 24

\* A double is <<sign, a, b, c>>: sign * (a*2^48 + b*2^24 + c) * 2^-60, with
\* sign 1 or -1; zero is <<1, 0, 0, 0>>.  NaN has sign 0.
NaN == <<0, 0, 0, 0>>

FZero == <<1, 0, 0, 0>>

IsNaN(x) == x[1] = 0

Mag(x) == <<x[2], x[3], x[4]>>

MagZero == <<0, 0, 0>>

MagLt(m, n) ==
  \/ m[1] < n[1]
  \/ m[1] = n[1] /\ m[2] < n[2]
  \/ m[1] = n[1] /\ m[2] = n[2] /\ m[3] < n[3]

MagAdd(m, n) ==
  LET c  == m[3] + n[3]
      b  == m[2] + n[2] + (c \div Limb)
      a  == m[1] + n[1] + (b \div Limb)
  IN  <<a, b % Limb, c % Limb>>

\* m - n for m >= n
MagSub(m, n) ==
  LET c  == m[3] - n[3]
      bc == IF c < 0 THEN 1 ELSE 0
      b  == m[2] - n[2] - bc
      bb == IF b < 0 THEN 1 ELSE 0
      a  == m[1] - n[1] - bb
  IN  <<a, b + bb * Limb, c + bc * Limb>>

\* The number of significant bits of 0 <= n < 2^30.
BitLen(n) == CHOOSE k \in 0..30 : (2 ^ k > n) /\ (k = 0 \/ 2 ^ (k - 1) <= n)

MagBitLen(m) ==
  IF m[1] > 0 THEN 48 + BitLen(m[1])
  ELSE IF m[2] > 0 THEN 24 + BitLen(m[2])
  ELSE BitLen(m[3])

\* Round a magnitude below 2^77 (an amount below 131072.00) to 53
\* significant bits, to nearest, ties to even.
\* sticky tells what lies below the magnitude's last unit: 0 nothing,
\* 1 less than half a unit, 2 exactly half, 3 more than half.
Round53(m, sticky) ==
  LET len  == MagBitLen(m)
      sh   == IF len > 53 THEN len - 53 ELSE 0
      unit == 2 ^ sh
      low  == m[3] % unit
      odd  == IF sh = 24 THEN m[2] % 2 = 1 ELSE ((m[3] \div unit) % 2) = 1
      up   == IF sh = 0
              THEN sticky = 3 \/ (sticky = 2 /\ odd)
              ELSE LET half == 2 ^ (sh - 1)
                   IN  \/ low > half
                       \/ low = half /\ sticky > 0
                       \/ low = half /\ sticky = 0 /\ odd
      base == <<m[1], m[2], m[3] - low>>
      one  == IF sh = 24 THEN <<0, 1, 0>> ELSE <<0, 0, unit>>
  IN  IF up THEN MagAdd(base, one) ELSE base

Signed(s, m) == IF m = MagZero THEN FZero ELSE <<s, m[1], m[2], m[3]>>

\* parseFloat of the decimal string of a whole number of cents ("128.01"):
\* the double nearest to cents / 100.
ParseCents(cents) ==
  LET n  == IF cents < 0 THEN 0 - cents ELSE cents
      t1 == (n % 100) * 4096
      t2 == (t1 % 100) * Limb
      t3 == (t2 % 100) * Limb
      r  == t3 % 100
      m  == <<(n \div 100) * 4096 + (t1 \div 100), t2 \div 100, t3 \div 100>>
      st == IF r = 0 THEN 0 ELSE IF r < 50 THEN 1 ELSE IF r = 50 THEN 2 ELSE 3
  IN  Signed(IF cents < 0 THEN -1 ELSE 1, Round53(m, st))

\* A whole number as a double (the literals 0, 100, 200 of the routes).
FInt(n) == ParseCents(n * 100)

\* x + y
FAdd(x, y) ==
  IF IsNaN(x) \/ IsNaN(y) THEN NaN
  ELSE IF x[1] = y[1] THEN Signed(x[1], Round53(MagAdd(Mag(x), Mag(y)), 0))
  ELSE IF MagLt(Mag(x), Mag(y))
       THEN Signed(y[1], Round53(MagSub(Mag(y), Mag(x)), 0))
       ELSE Signed(x[1], Round53(MagSub(Mag(x), Mag(y)), 0))

FNeg(x) == IF IsNaN(x) THEN NaN ELSE Signed(0 - x[1], Mag(x))

\* x - y
FSub(x, y) == FAdd(x, FNeg(y))

\* x < y; every comparison with NaN is false.
FLt(x, y) ==
  /\ ~IsNaN(x)
  /\ ~IsNaN(y)
  /\ IF x[1] # y[1] THEN x[1] < y[1]
     ELSE IF x[1] = 1 THEN MagLt(Mag(x), Mag(y))
     ELSE MagLt(Mag(y), Mag(x))

\* x > y
FGt(x, y) == FLt(y, x)

\* x <= y
FLe(x, y) == ~IsNaN(x) /\ ~IsNaN(y) /\ ~FLt(y, x)

\* x >= y
FGe(x, y) == FLe(y, x)

\* x * 0.5, for a double whose magnitude is even in units of 2^-60 (every
\* parsed amount of at least one cent is; halving is then exact).
FHalf(x) ==
  IF IsNaN(x) THEN NaN
  ELSE LET m == Mag(x)
           a == m[1] \div 2
           b == (m[2] + (m[1] % 2) * Limb) \div 2
           c == (m[3] + (m[2] % 2) * Limb) \div 2
       IN  Signed(x[1], <<a, b, c>>)

\* Math.max(0, x)
FMax0(x) == IF IsNaN(x) THEN NaN ELSE IF FLt(x, FZero) THEN FZero ELSE x

\* x.toFixed(2), as the number of cents it prints: the whole number n for
\* which n / 100 is nearest to x, the larger one of two; <<>> for "NaN".
ToFixed2(x) ==
  IF IsNaN(x) THEN <<>>
  ELSE LET c100 == x[4] * 100
           b100 == x[3] * 100 + (c100 \div Limb)
           f100 == (x[2] % 4096) * 100 + (b100 \div Limb)
           n    == (x[2] \div 4096) * 100 + (f100 \div 4096)
                     + (IF f100 % 4096 >= 2048 THEN 1 ELSE 0)
       IN  <<x[1] * n>>

\* array.reduce((sum, r) => sum + parseFloat(amount(r)), 0) over cents
RECURSIVE FSum(_)
FSum(cents) ==
  IF cents = <<>> THEN FZero
  ELSE FAdd(FSum(SubSeq(cents, 1, Len(cents) - 1)),
            ParseCents(cents[Len(cents)]))

\* ------------------------------------------------------------------------
\* The record store (shared/schema.ts, server/storage.ts)
\* ------------------------------------------------------------------------

\* The tables, each a sequence of rows in insertion order; today is the
\* server's clock (new Date()); res is the response to the last request;
\* seeding is where each user's list requests stand in seedUserData;
\* transactions is the table of the recorded transactions.
VARIABLES virtualAccounts, envelopes, debts, bills, paySchedules,
          userSettings, today, res, seeding, transactions

tables == <<virtualAccounts, envelopes, debts, bills, paySchedules>>

vars == <<virtualAccounts, envelopes, debts, bills, paySchedules,
          userSettings, today, res, seeding, transactions>>

Users == {"u1", "u2"}

\* array.map
Map(s, F(_)) == [i \in 1..Len(s) |-> F(s[i])]

\* array.filter
Filter(s, P(_)) == SelectSeq(s, P)

\* The first element of s, if any: <<>> stands for undefined
First(s) == IF s = <<>> THEN <<>> ELSE <<s[1]>>

\* array.find
Find(s, P(_)) == First(SelectSeq(s, P))

Reverse(s) == [i \in 1..Len(s) |-> s[Len(s) + 1 - i]]

\* A stable sort of s for the comparator Cmp (Array.prototype.sort, and
\* ORDER BY on equal keys in insertion order).
SortBy(s, Cmp(_, _)) ==
  LET RECURSIVE Sorted(_)
      Sorted(n) ==
        IF n = 0 THEN <<>>
        ELSE LET init == Sorted(n - 1)
                 k    == Cardinality({i \in 1..(n - 1) : Cmp(init[i], s[n]) <= 0})
             IN  SubSeq(init, 1, k) \o <<s[n]>> \o SubSeq(init, k + 1, n - 1)
  IN  Sorted(Len(s))

getAccountsByUser(userId) == Filter(virtualAccounts, LAMBDA r : r.userId = userId)

\* orderBy(desc(createdAt))
getEnvelopesByUser(userId) == Reverse(Filter(envelopes, LAMBDA r : r.userId = userId))

\* orderBy(desc(createdAt))
getDebtsByUser(userId) == Reverse(Filter(debts, LAMBDA r : r.userId = userId))

\* orderBy(bills.dueDay)
getBillsByUser(userId) ==
  SortBy(Filter(bills, LAMBDA r : r.userId = userId), LAMBDA a, b : a.dueDay - b.dueDay)

getPaySchedulesByUser(userId) == Filter(paySchedules, LAMBDA r : r.userId = userId)

\* The user's settings row, <<>> (undefined) when there is none.
getUserSettings(userId) == Find(userSettings, LAMBDA r : r.userId = userId)

\* ------------------------------------------------------------------------
\* POST /api/safe-to-spend-check (server/routes.ts)
\* ------------------------------------------------------------------------

\* The request body's amount: a decimal string of whole cents, or a string
\* parseFloat cannot read.
Num(cents) == [kind |-> "num", cents |-> cents]

Malformed == [kind |-> "bad", cents |-> 0]

\* parseFloat(amount)
parseFloat(amount) ==
  IF amount.kind = "num" THEN ParseCents(amount.cents) ELSE NaN

\* One entry of warnings: which message, the amount it prints with
\* toFixed(2), the envelope names it lists.
Warning(kind, shown, names) == [kind |-> kind, shown |-> shown, names |-> names]

\* parseFloat(account?.balance || "0") for the first account of a type
AccountBalance(accounts, type) ==
  LET account == Find(accounts, LAMBDA a : a.type = type)
  IN  IF account = <<>> THEN ParseCents(0) ELSE ParseCents(account[1].balance)

\* A verdict so far: the status and the warnings pushed.
Verdict(status, warnings) == [status |-> status, warnings |-> warnings]

\* The balance rule with the low-balance test written newBalance <= 100.
BalanceRuleAtMost(purchaseAmount, spendingBalance, newBalance, settings) ==
  IF FGt(purchaseAmount, spendingBalance)
  THEN Verdict("no", <<Warning("exceeds", ToFixed2(spendingBalance), <<>>)>>)
  ELSE IF FLe(newBalance, FInt(100))
            /\ settings # <<>> /\ settings[1].safeToSpendWarning
  THEN Verdict("warning", <<Warning("low", ToFixed2(newBalance), <<>>)>>)
  ELSE Verdict("yes", <<>>)

\* The balance rule with the low-balance test turned around: newBalance > 100.
BalanceRuleInverted(purchaseAmount, spendingBalance, newBalance, settings) ==
  IF FGt(purchaseAmount, spendingBalance)
  THEN Verdict("no", <<Warning("exceeds", ToFixed2(spendingBalance), <<>>)>>)
  ELSE IF FGt(newBalance, FInt(100))
            /\ settings # <<>> /\ settings[1].safeToSpendWarning
  THEN Verdict("warning", <<Warning("low", ToFixed2(newBalance), <<>>)>>)
  ELSE Verdict("yes", <<>>)

\* if (purchaseAmount > spendingBalance) ... else if (newBalance < 100 &&
\* settings?.safeToSpendWarning) ..., from status "yes" and no warnings
BalanceRule(purchaseAmount, spendingBalance, newBalance, settings) ==
  IF FGt(purchaseAmount, spendingBalance)
  THEN Verdict("no", <<Warning("exceeds", ToFixed2(spendingBalance), <<>>)>>)
  ELSE IF FLt(newBalance, FInt(100))
            /\ settings # <<>> /\ settings[1].safeToSpendWarning
  THEN Verdict("warning", <<Warning("low", ToFixed2(newBalance), <<>>)>>)
  ELSE Verdict("yes", <<>>)

\* The affected envelopes without the  balance > 0  test.
AffectedEnvelopesAnyBalance(envs, purchaseAmount) ==
  Filter(Filter(envs, LAMBDA e : ~e.isStrict),
         LAMBDA e : FGt(purchaseAmount, ParseCents(e.currentBalance)))

\* nonStrictEnvelopes.filter(e => purchaseAmount > balance && balance > 0)
AffectedEnvelopes(envs, purchaseAmount) ==
  Filter(Filter(envs, LAMBDA e : ~e.isStrict),
         LAMBDA e : /\ FGt(purchaseAmount, ParseCents(e.currentBalance))
                    /\ FGt(ParseCents(e.currentBalance), FInt(0)))

\* The envelope rule without its  status !== "no"  test.
EnvelopeRuleAnyStatus(v, affectedEnvelopes) ==
  IF Len(affectedEnvelopes) > 0
  THEN Verdict("warning",
               Append(v.warnings,
                      Warning("short", <<>>, Map(affectedEnvelopes, LAMBDA e : e.name))))
  ELSE v

\* if (affectedEnvelopes.length > 0 && status !== "no") ...
EnvelopeRule(v, affectedEnvelopes) ==
  IF Len(affectedEnvelopes) > 0 /\ v.status # "no"
  THEN Verdict("warning",
               Append(v.warnings,
                      Warning("short", <<>>, Map(affectedEnvelopes, LAMBDA e : e.name))))
  ELSE v

\* The bills-account condition with "at least half" for its purchase tests.
BillsAccountNeededFromHalf(billsBalance, unpaidBillsTotal, purchaseAmount, spendingBalance, newBalance) ==
  /\ FLt(billsBalance, unpaidBillsTotal)
  /\ FGe(purchaseAmount, FHalf(spendingBalance))

\* billsAccountWouldBeShort && purchaseAmount > spendingBalance * 0.5
BillsAccountNeeded(billsBalance, unpaidBillsTotal, purchaseAmount, spendingBalance, newBalance) ==
  /\ FLt(billsBalance, unpaidBillsTotal) /\ FGt(purchaseAmount, newBalance)
  /\ FGt(purchaseAmount, FHalf(spendingBalance))

\* The bills rule setting "warning" whatever the status was.
BillsRuleAlways(v, needed) ==
  IF needed
  THEN Verdict("warning", Append(v.warnings, Warning("bills", <<>>, <<>>)))
  ELSE v

\* The bills rule downgrading without recording its warning.
BillsRuleSilent(v, needed) ==
  IF needed
  THEN Verdict(IF v.status = "yes" THEN "warning" ELSE v.status, v.warnings)
  ELSE v

\* if (...) { if (status === "yes") status = "warning"; warnings.push(...) }
BillsRule(v, needed) ==
  IF needed
  THEN Verdict(IF v.status = "yes" THEN "warning" ELSE v.status,
               Append(v.warnings, Warning("bills", <<>>, <<>>)))
  ELSE v

Recommendation(v, newBalance) ==
  IF v.status = "yes"
  THEN [kind |-> "yes", quote |-> <<Warning("remaining", ToFixed2(newBalance), <<>>)>>]
  ELSE [kind  |-> IF v.status = "warning" THEN "caution" ELSE "not",
        \* warnings.length > 0 ? warnings[0] : the fallback text
        quote |-> First(v.warnings)]

\* The verdict with the strict envelopes' budgets and the debts' minimum
\* payments taken off the spending balance first.
SafeToSpendCheckNet(accounts, envs, dbts, bls, settings, amount) ==
  LET billsBalance     == AccountBalance(accounts, "bills")
      strictTotal      ==
        FSum(Map(Filter(envs, LAMBDA e : e.isStrict), LAMBDA e : e.budgetAmount))
      unpaidBillsTotal ==
        FSum(Map(Filter(bls, LAMBDA b : ~b.isPaid), LAMBDA b : b.amount))
      debtPayments     == FSum(Map(dbts, LAMBDA d : d.minimumPayment))
      spendingBalance  ==
        FSub(FSub(AccountBalance(accounts, "spending"), strictTotal), debtPayments)
      purchaseAmount   == parseFloat(amount)
      newBalance       == FSub(spendingBalance, purchaseAmount)
      v1 == BalanceRule(purchaseAmount, spendingBalance, newBalance, settings)
      v2 == EnvelopeRule(v1, AffectedEnvelopes(envs, purchaseAmount))
      v  == BillsRule(v2, BillsAccountNeeded(billsBalance, unpaidBillsTotal,
                                             purchaseAmount, spendingBalance,
                                             newBalance))
  IN  [canBuy            |-> v.status # "no",
       status            |-> v.status,
       safeToSpend       |-> spendingBalance,
       purchaseAmount    |-> purchaseAmount,
       remainingAfter    |-> newBalance,
       warnings          |-> v.warnings,
       recommendation    |-> Recommendation(v, newBalance),
       strictObligations |-> strictTotal,
       upcomingBills     |-> unpaidBillsTotal,
       debtPayments      |-> debtPayments]

\* The body of the 200 response: the verdict on buying for `amount`, from
\* the rows the five reads returned.
SafeToSpendCheck(accounts, envs, dbts, bls, settings, amount) ==
  LET spendingBalance  == AccountBalance(accounts, "spending")
      billsBalance     == AccountBalance(accounts, "bills")
      strictTotal      ==
        FSum(Map(Filter(envs, LAMBDA e : e.isStrict), LAMBDA e : e.budgetAmount))
      unpaidBillsTotal ==
        FSum(Map(Filter(bls, LAMBDA b : ~b.isPaid), LAMBDA b : b.amount))
      debtPayments     == FSum(Map(dbts, LAMBDA d : d.minimumPayment))
      purchaseAmount   == parseFloat(amount)
      newBalance       == FSub(spendingBalance, purchaseAmount)
      v1 == BalanceRule(purchaseAmount, spendingBalance, newBalance, settings)
      v2 == EnvelopeRule(v1, AffectedEnvelopes(envs, purchaseAmount))
      v  == BillsRule(v2, BillsAccountNeeded(billsBalance, unpaidBillsTotal,
                                             purchaseAmount, spendingBalance,
                                             newBalance))
  IN  [canBuy            |-> v.status # "no",
       status            |-> v.status,
       safeToSpend       |-> spendingBalance,
       purchaseAmount    |-> purchaseAmount,
       remainingAfter    |-> newBalance,
       warnings          |-> v.warnings,
       recommendation    |-> Recommendation(v, newBalance),
       strictObligations |-> strictTotal,
       upcomingBills     |-> unpaidBillsTotal,
       debtPayments      |-> debtPayments]

\* ------------------------------------------------------------------------
\* GET /api/payday-funding-plan (server/routes.ts)
\* ------------------------------------------------------------------------

\* The bill's flag from its mustHaveByDay alone:  c && d  as JSON prints it.
AndOnly(a, c, d) ==
  IF c = <<>> THEN "null"
  ELSE IF c[1] = 0 THEN "0"
  ELSE IF d THEN "true" ELSE "false"

\* The bill's flag from its due day alone:  a  as JSON prints it.
OrOnly(a, c, d) == IF a THEN "true" ELSE "false"

\* The value of  a || b  for a boolean a and the value of  c && d  for a
\* nullable number c, as JSON prints it: "true", "false", "null" or "0".
OrAnd(a, c, d) ==
  IF a THEN "true"
  ELSE IF c = <<>> THEN "null"
  ELSE IF c[1] = 0 THEN "0"
  ELSE IF d THEN "true" ELSE "false"

\* billsTotal + debtPaymentsTotal + savingsTarget + taxReserve
TotalObligations(billsTotal, debtPaymentsTotal, savingsTarget, taxReserve) ==
  FAdd(FAdd(FAdd(billsTotal, debtPaymentsTotal), savingsTarget), taxReserve)

\* The plan's safeToSpend without Math.max.
SafeToSpendUnclamped(expectedIncome, totalObligations) ==
  FSub(expectedIncome, totalObligations)

\* Math.max(0, expectedIncome - totalObligations)
SafeToSpend(expectedIncome, totalObligations) ==
  FMax0(FSub(expectedIncome, totalObligations))

\* The earliest nextPayday of the schedules, <<>> (null) without one.
NextPaydayEarliest(schedules) ==
  IF Len(schedules) > 0
  THEN <<CHOOSE d \in {schedules[i].nextPayday : i \in 1..Len(schedules)} :
           \A i \in 1..Len(schedules) : d <= schedules[i].nextPayday>>
  ELSE <<>>

\* paySchedules.length > 0 ? new Date(paySchedules[0].nextPayday) : null
NextPayday(schedules) ==
  IF Len(schedules) > 0 THEN <<schedules[1].nextPayday>> ELSE <<>>

\* The body of the 200 response, from the rows the reads returned and the
\* day of the month.
PaydayFundingPlan(bls, dbts, schedules, currentDay) ==
  LET unpaidBills       == Filter(bls, LAMBDA b : ~b.isPaid)
      billsTotal        == FSum(Map(unpaidBills, LAMBDA b : b.amount))
      debtPaymentsTotal == FSum(Map(dbts, LAMBDA d : d.minimumPayment))
      savingsTarget     == FInt(200)
      taxReserve        == FInt(0)
      totalObligations  ==
        TotalObligations(billsTotal, debtPaymentsTotal, savingsTarget, taxReserve)
      nextPayday        == NextPayday(schedules)
      expectedIncome    == FSum(Map(schedules, LAMBDA p : p.amount))
      safeToSpend       == SafeToSpend(expectedIncome, totalObligations)
  IN  [billsFunding     |-> billsTotal,
       debtFunding      |-> debtPaymentsTotal,
       savingsFunding   |-> savingsTarget,
       taxesFunding     |-> taxReserve,
       safeToSpend      |-> safeToSpend,
       totalObligations |-> totalObligations,
       expectedIncome   |-> expectedIncome,
       nextPayday       |-> nextPayday,
       bills |-> Map(unpaidBills, LAMBDA b :
                   [id |-> b.id, amount |-> ParseCents(b.amount),
                    dueDay |-> b.dueDay, mustHaveByDay |-> b.mustHaveByDay,
                    isUrgent |-> OrAnd(b.dueDay <= currentDay + 3,
                                       b.mustHaveByDay,
                                       b.mustHaveByDay # <<>>
                                         /\ b.mustHaveByDay[1] <= currentDay)]),
       debts |-> Map(dbts, LAMBDA d :
                   [id |-> d.id, minimumPayment |-> ParseCents(d.minimumPayment),
                    dueDay |-> d.dueDay,
                    isUrgent |-> d.dueDay <= currentDay + 3])]

\* ------------------------------------------------------------------------
\* GET /api/urgent-actions (server/routes.ts)
\* ------------------------------------------------------------------------

calcDaysUntil(dueDay, currentDay, daysInCurrentMonth) ==
  IF dueDay >= currentDay THEN dueDay - currentDay
  ELSE daysInCurrentMonth - currentDay + dueDay

Action(type, urgency, amount, daysUntil, id) ==
  [type |-> type, urgency |-> urgency, amount |-> amount,
   daysUntil |-> daysUntil, id |-> id]

\* A bill's actions from its due day alone, whatever its mustHaveByDay.
BillActionsByDueDay(bill, currentDay, daysInCurrentMonth) ==
  LET daysUntil == calcDaysUntil(bill.dueDay, currentDay, daysInCurrentMonth)
  IN  IF daysUntil = 0
      THEN <<Action("bill", "today", ParseCents(bill.amount), 0, bill.id)>>
      ELSE IF daysUntil <= 3
      THEN <<Action("bill", "urgent", ParseCents(bill.amount), daysUntil, bill.id)>>
      ELSE IF daysUntil <= 7
      THEN <<Action("bill", "warning", ParseCents(bill.amount), daysUntil, bill.id)>>
      ELSE <<>>

\* What one unpaid bill pushes on urgentActions: one action or none.
BillActions(bill, currentDay, daysInCurrentMonth) ==
  LET dueDay            == bill.dueDay
      \* bill.mustHaveByDay || dueDay
      mustHaveByDay     == IF bill.mustHaveByDay = <<>> \/ bill.mustHaveByDay[1] = 0
                           THEN dueDay ELSE bill.mustHaveByDay[1]
      daysUntil         == calcDaysUntil(dueDay, currentDay, daysInCurrentMonth)
      mustHaveDaysUntil == calcDaysUntil(mustHaveByDay, currentDay, daysInCurrentMonth)
  IN  IF daysUntil = 0 \/ mustHaveDaysUntil = 0
      THEN <<Action("bill", "today", ParseCents(bill.amount), 0, bill.id)>>
      ELSE IF daysUntil <= 3 \/ mustHaveDaysUntil <= 2
      THEN <<Action("bill", "urgent", ParseCents(bill.amount), daysUntil, bill.id)>>
      ELSE IF daysUntil <= 7
      THEN <<Action("bill", "warning", ParseCents(bill.amount), daysUntil, bill.id)>>
      ELSE <<>>

\* A debt's actions by  dueDay <= currentDay + 3, without the wraparound.
DebtActionsNoWrap(debt, currentDay, daysInCurrentMonth) ==
  IF debt.dueDay = currentDay
  THEN <<Action("debt", "today", ParseCents(debt.minimumPayment), 0, debt.id)>>
  ELSE IF debt.dueDay <= currentDay + 3
  THEN <<Action("debt", "urgent", ParseCents(debt.minimumPayment),
                calcDaysUntil(debt.dueDay, currentDay, daysInCurrentMonth), debt.id)>>
  ELSE <<>>

\* What one debt pushes on urgentActions.
DebtActions(debt, currentDay, daysInCurrentMonth) ==
  LET daysUntil == calcDaysUntil(debt.dueDay, currentDay, daysInCurrentMonth)
  IN  IF daysUntil = 0
      THEN <<Action("debt", "today", ParseCents(debt.minimumPayment), 0, debt.id)>>
      ELSE IF daysUntil <= 3
      THEN <<Action("debt", "urgent", ParseCents(debt.minimumPayment), daysUntil, debt.id)>>
      ELSE <<>>

RECURSIVE Concat(_)
Concat(ss) == IF ss = <<>> THEN <<>> ELSE ss[1] \o Concat(Tail(ss))

urgencyOrder(urgency) ==
  IF urgency = "today" THEN 0 ELSE IF urgency = "urgent" THEN 1 ELSE 2

\* The comparator without its urgency term.
CompareDaysUntil(a, b) == a.daysUntil - b.daysUntil

\* urgencyOrder[a.urgency] - urgencyOrder[b.urgency] || a.daysUntil - b.daysUntil
CompareActions(a, b) ==
  IF urgencyOrder(a.urgency) - urgencyOrder(b.urgency) # 0
  THEN urgencyOrder(a.urgency) - urgencyOrder(b.urgency)
  ELSE a.daysUntil - b.daysUntil

\* The actions of all the bills, paid ones too, then of the debts, sorted.
UrgentActionsOfAllBills(bls, dbts, currentDay, daysInCurrentMonth) ==
  SortBy(Concat(Map(bls, LAMBDA b : BillActions(b, currentDay, daysInCurrentMonth)))
           \o Concat(Map(dbts, LAMBDA d : DebtActions(d, currentDay, daysInCurrentMonth))),
         CompareActions)

\* The body of the 200 response: the actions of the unpaid bills, then of
\* the debts, sorted.
UrgentActions(bls, dbts, currentDay, daysInCurrentMonth) ==
  LET unpaid == Filter(bls, LAMBDA b : ~b.isPaid)
      pushed ==
        Concat(Map(unpaid, LAMBDA b : BillActions(b, currentDay, daysInCurrentMonth)))
          \o Concat(Map(dbts, LAMBDA d : DebtActions(d, currentDay, daysInCurrentMonth)))
  IN  SortBy(pushed, CompareActions)

\* ------------------------------------------------------------------------
\* The route handlers
\* ------------------------------------------------------------------------

\* res.status(code).json(body) of route op for the signed-in userId, with
\* what the request carried, the storage calls the handler issued, in
\* order, those of them that failed, and the clock it read.
Response(op, userId, code, req, body, calls, failed) ==
  [op |-> op, userId |-> userId, code |-> code, req |-> req, body |-> body,
   calls |-> calls, failed |-> failed, at |-> today]

NoRequest == [kind |-> "none", cents |-> 0]

NoResponse ==
  [op |-> "none", userId |-> "", code |-> 0, req |-> NoRequest, body |-> <<>>,
   calls |-> <<>>, failed |-> {}, at |-> [date |-> 0, daysInMonth |-> 0]]

Error(message) == [error |-> message]

Range(s) == {s[i] : i \in 1..Len(s)}

\* The reads of Promise.all([...]) in POST /api/safe-to-spend-check
SafeToSpendReads ==
  <<"getAccountsByUser", "getEnvelopesByUser", "getDebtsByUser",
    "getBillsByUser", "getUserSettings">>

\* The reads of Promise.all([...]) in GET /api/payday-funding-plan
FundingPlanReads ==
  <<"getAccountsByUser", "getBillsByUser", "getDebtsByUser",
    "getPaySchedulesByUser", "getUserSettings">>

\* The reads of Promise.all([...]) in GET /api/urgent-actions
UrgentActionsReads == <<"getBillsByUser", "getDebtsByUser">>

\* The purchase check that also posts the purchase: it takes the amount off
\* the user's spending account when the verdict allows it.
PostSafeToSpendCheckPosting(userId, amount, failed) ==
  LET body == SafeToSpendCheck(getAccountsByUser(userId), getEnvelopesByUser(userId),
                               getDebtsByUser(userId), getBillsByUser(userId),
                               getUserSettings(userId), amount)
  IN  /\ failed \subseteq Range(SafeToSpendReads)
      /\ IF failed # {}
         THEN /\ res' = Response("safe-to-spend-check", userId, 500, amount,
                                 Error("Failed to check safe to spend"),
                                 SafeToSpendReads, failed)
              /\ UNCHANGED virtualAccounts
         ELSE /\ res' = Response("safe-to-spend-check", userId, 200, amount, body,
                                 SafeToSpendReads, failed)
              /\ virtualAccounts' =
                   [i \in 1..Len(virtualAccounts) |->
                      IF /\ virtualAccounts[i].userId = userId
                         /\ virtualAccounts[i].type = "spending"
                         /\ body.canBuy /\ amount.kind = "num"
                      THEN [virtualAccounts[i] EXCEPT !.balance = @ - amount.cents]
                      ELSE virtualAccounts[i]]
      /\ UNCHANGED <<envelopes, debts, bills, paySchedules, userSettings, today>>

\* app.post("/api/safe-to-spend-check"): the reads named in failed reject.
PostSafeToSpendCheck(userId, amount, failed) ==
  /\ failed \subseteq Range(SafeToSpendReads)
  /\ res' = IF failed # {}
            THEN Response("safe-to-spend-check", userId, 500, amount,
                          Error("Failed to check safe to spend"),
                          SafeToSpendReads, failed)
            ELSE Response("safe-to-spend-check", userId, 200, amount,
                          SafeToSpendCheck(getAccountsByUser(userId),
                                           getEnvelopesByUser(userId),
                                           getDebtsByUser(userId),
                                           getBillsByUser(userId),
                                           getUserSettings(userId), amount),
                          SafeToSpendReads, failed)
  /\ UNCHANGED <<virtualAccounts, envelopes, debts, bills, paySchedules,
                 userSettings, today>>

\* SafeToSpendCard.handleCheck (client): the request is sent only for an
\* amount that parses to more than 0.
HandleCheck(userId, checkAmount, failed) ==
  /\ FGt(parseFloat(checkAmount), FInt(0))
  /\ PostSafeToSpendCheck(userId, checkAmount, failed)

\* The funding plan read with Promise.allSettled: a rejected read of the
\* accounts or of the settings, which the plan does not use, is passed over.
GetPaydayFundingPlanSettled(userId, failed) ==
  /\ failed \subseteq Range(FundingPlanReads)
  /\ res' = IF failed \ {"getAccountsByUser", "getUserSettings"} # {}
            THEN Response("payday-funding-plan", userId, 500, NoRequest,
                          Error("Failed to get funding plan"),
                          FundingPlanReads, failed)
            ELSE Response("payday-funding-plan", userId, 200, NoRequest,
                          PaydayFundingPlan(getBillsByUser(userId),
                                            getDebtsByUser(userId),
                                            getPaySchedulesByUser(userId),
                                            today.date),
                          FundingPlanReads, failed)
  /\ UNCHANGED <<virtualAccounts, envelopes, debts, bills, paySchedules,
                 userSettings, today>>

\* app.get("/api/payday-funding-plan")
GetPaydayFundingPlan(userId, failed) ==
  /\ failed \subseteq Range(FundingPlanReads)
  /\ res' = IF failed # {}
            THEN Response("payday-funding-plan", userId, 500, NoRequest,
                          Error("Failed to get funding plan"),
                          FundingPlanReads, failed)
            ELSE Response("payday-funding-plan", userId, 200, NoRequest,
                          PaydayFundingPlan(getBillsByUser(userId),
                                            getDebtsByUser(userId),
                                            getPaySchedulesByUser(userId),
                                            today.date),
                          FundingPlanReads, failed)
  /\ UNCHANGED <<virtualAccounts, envelopes, debts, bills, paySchedules,
                 userSettings, today>>

\* app.get("/api/urgent-actions")
GetUrgentActions(userId, failed) ==
  /\ failed \subseteq Range(UrgentActionsReads)
  /\ res' = IF failed # {}
            THEN Response("urgent-actions", userId, 500, NoRequest,
                          Error("Failed to get urgent actions"),
                          UrgentActionsReads, failed)
            ELSE Response("urgent-actions", userId, 200, NoRequest,
                          UrgentActions(getBillsByUser(userId),
                                        getDebtsByUser(userId),
                                        today.date, today.daysInMonth),
                          UrgentActionsReads, failed)
  /\ UNCHANGED <<virtualAccounts, envelopes, debts, bills, paySchedules,
                 userSettings, today>>

\* A row with the fields a partial body names replaced: .set(body)
Merge(row, body) ==
  [f \in DOMAIN row |-> IF f \in DOMAIN body THEN body[f] ELSE row[f]]

\* db.update(table).set(body).where(eq(table.id, id)): the table after it
UpdateById(table, id, body) ==
  [i \in 1..Len(table) |->
     IF table[i].id = id THEN Merge(table[i], body) ELSE table[i]]

\* The user_settings row of the column defaults
DefaultSettings(userId) ==
  [userId |-> userId, debtAttackMode |-> "avalanche", safeToSpendWarning |-> TRUE]

\* storage.upsertUserSettings(values): the table after it, one row a user
upsertUserSettings(values) ==
  IF getUserSettings(values.userId) = <<>>
  THEN Append(userSettings, Merge(DefaultSettings(values.userId), values))
  ELSE [i \in 1..Len(userSettings) |->
          IF userSettings[i].userId = values.userId
          THEN Merge(userSettings[i], values) ELSE userSettings[i]]

\* app.get("/api/settings"): the stored row, or the default, stored first
GetSettings(userId, failed) ==
  LET settings == getUserSettings(userId)
      calls    == IF settings = <<>> /\ "getUserSettings" \notin failed
                  THEN <<"getUserSettings", "upsertUserSettings">>
                  ELSE <<"getUserSettings">>
      written  == upsertUserSettings(DefaultSettings(userId))
  IN  /\ failed \subseteq {"getUserSettings", "upsertUserSettings"}
      /\ IF failed \cap Range(calls) # {}
         THEN /\ res' = Response("settings", userId, 500, NoRequest,
                                 Error("Failed to fetch settings"), calls, failed)
              /\ UNCHANGED userSettings
         ELSE IF settings = <<>>
         THEN /\ userSettings' = written
              /\ res' = Response("settings", userId, 200, NoRequest,
                                 DefaultSettings(userId), calls, failed)
         ELSE /\ res' = Response("settings", userId, 200, NoRequest,
                                 settings[1], calls, failed)
              /\ UNCHANGED userSettings
      /\ UNCHANGED <<virtualAccounts, envelopes, debts, bills, paySchedules, today>>

\* app.patch("/api/settings"): upsert of { ...req.body, userId }
PatchSettings(userId, body, failed) ==
  LET values == [f \in DOMAIN body \cup {"userId"} |->
                   IF f = "userId" THEN userId ELSE body[f]]
      after  == upsertUserSettings(values)
      row    == SelectSeq(after, LAMBDA r : r.userId = userId)[1]
  IN  /\ failed \subseteq {"upsertUserSettings"}
      /\ IF failed # {}
         THEN /\ res' = Response("patch-settings", userId, 500, NoRequest,
                                 Error("Failed to update settings"),
                                 <<"upsertUserSettings">>, failed)
              /\ UNCHANGED userSettings
         ELSE /\ userSettings' = after
              /\ res' = Response("patch-settings", userId, 200, NoRequest, row,
                                 <<"upsertUserSettings">>, failed)
      /\ UNCHANGED <<virtualAccounts, envelopes, debts, bills, paySchedules, today>>

\* app.patch("/api/bills/:id"): storage.updateBill(id, req.body)
PatchBill(userId, id, body, failed) ==
  LET found == SelectSeq(bills, LAMBDA r : r.id = id)
  IN  /\ failed \subseteq {"updateBill"}
      /\ IF failed # {}
         THEN /\ res' = Response("patch-bill", userId, 500, NoRequest,
                                 Error("Failed to update bill"), <<"updateBill">>, failed)
              /\ UNCHANGED bills
         ELSE IF found = <<>>
         THEN /\ res' = Response("patch-bill", userId, 404, NoRequest,
                                 Error("Bill not found"), <<"updateBill">>, failed)
              /\ UNCHANGED bills
         ELSE /\ bills' = UpdateById(bills, id, body)
              /\ res' = Response("patch-bill", userId, 200, NoRequest,
                                 Merge(found[1], body), <<"updateBill">>, failed)
      /\ UNCHANGED <<virtualAccounts, envelopes, debts, paySchedules,
                     userSettings, today>>

\* app.patch("/api/accounts/:id"): storage.updateAccount(id, req.body)
PatchAccount(userId, id, body, failed) ==
  LET found == SelectSeq(virtualAccounts, LAMBDA r : r.id = id)
  IN  /\ failed \subseteq {"updateAccount"}
      /\ IF failed # {}
         THEN /\ res' = Response("patch-account", userId, 500, NoRequest,
                                 Error("Failed to update account"),
                                 <<"updateAccount">>, failed)
              /\ UNCHANGED virtualAccounts
         ELSE IF found = <<>>
         THEN /\ res' = Response("patch-account", userId, 404, NoRequest,
                                 Error("Account not found"), <<"updateAccount">>, failed)
              /\ UNCHANGED virtualAccounts
         ELSE /\ virtualAccounts' = UpdateById(virtualAccounts, id, body)
              /\ res' = Response("patch-account", userId, 200, NoRequest,
                                 Merge(found[1], body), <<"updateAccount">>, failed)
      /\ UNCHANGED <<envelopes, debts, bills, paySchedules, userSettings, today>>

\* ------------------------------------------------------------------------
\* Rows and the states the runs start from
\* ------------------------------------------------------------------------

Account(userId, type, balance) ==
  [id |-> 0, userId |-> userId, type |-> type, balance |-> balance]

Envelope(userId, name, budgetAmount, currentBalance, isStrict) ==
  [id |-> 0, userId |-> userId, name |-> name, budgetAmount |-> budgetAmount,
   currentBalance |-> currentBalance, isStrict |-> isStrict]

Debt(userId, minimumPayment, dueDay) ==
  [id |-> 0, userId |-> userId, minimumPayment |-> minimumPayment, dueDay |-> dueDay]

\* mustHaveByDay is <<>> for null
Bill(userId, amount, dueDay, mustHaveByDay, isPaid) ==
  [id |-> 0, userId |-> userId, amount |-> amount, dueDay |-> dueDay,
   mustHaveByDay |-> mustHaveByDay, isPaid |-> isPaid]

PaySchedule(userId, amount, nextPayday) ==
  [id |-> 0, userId |-> userId, amount |-> amount, nextPayday |-> nextPayday]

\* serial("id"): the rows numbered in insertion order
WithIds(rows) == [i \in 1..Len(rows) |-> [rows[i] EXCEPT !.id = i]]

\* The rows of kinds at the indices in S, in order.
Pick(kinds, S) ==
  LET RECURSIVE Upto(_)
      Upto(n) == IF n = 0 THEN <<>>
                 ELSE IF n \in S THEN Append(Upto(n - 1), kinds[n])
                 ELSE Upto(n - 1)
  IN  Upto(Len(kinds))

\* The sets of at most max indices of kinds
Choices(kinds, max) == {S \in SUBSET (1..Len(kinds)) : Cardinality(S) <= max}

\* What seedUserData stores for a user
SeedAccounts(userId) ==
  <<Account(userId, "bills", 250000), Account(userId, "spending", 85000),
    Account(userId, "savings", 120000)>>

SeedEnvelopes(userId) ==
  <<Envelope(userId, "Rent/Mortgage", 150000, 150000, TRUE),
    Envelope(userId, "Car Payment", 45000, 45000, TRUE),
    Envelope(userId, "Insurance", 20000, 20000, TRUE),
    Envelope(userId, "Utilities", 25000, 25000, TRUE),
    Envelope(userId, "Brady (Employee)", 30000, 30000, TRUE),
    Envelope(userId, "Groceries", 50000, 50000, FALSE),
    Envelope(userId, "Entertainment", 15000, 15000, FALSE)>>

SeedDebts(userId) ==
  <<Debt(userId, 50000, 15), Debt(userId, 10000, 20), Debt(userId, 45000, 5)>>

SeedBills(userId) ==
  <<Bill(userId, 150000, 1, <<>>, FALSE), Bill(userId, 12000, 15, <<>>, FALSE),
    Bill(userId, 8000, 10, <<>>, FALSE), Bill(userId, 15000, 20, <<>>, FALSE)>>

\* The storage calls that reject during one request: none, one of them, or
\* all of them.
Failures(calls) == {{}} \cup {{c} : c \in Range(calls)} \cup {Range(calls)}

\* ------------------------------------------------------------------------
\* The list routes and seedUserData (server/routes.ts, server/storage.ts)
\* ------------------------------------------------------------------------

\* The list routes, each of which seeds the user before it reads:
\* app.get("/api/accounts"), ("/api/envelopes"), ("/api/debts"), ("/api/bills")
Routes == {"accounts", "envelopes", "debts", "bills"}

\* No request is in seedUserData
NoSeeding == [u \in Users |-> [r \in Routes |-> "idle"]]

\* createEnvelope storing the currentBalance it is given, or the column's
\* default.
createEnvelopeAsGiven(envelope) ==
  Envelope(envelope.userId, envelope.name, envelope.budgetAmount,
           IF "currentBalance" \in DOMAIN envelope THEN envelope.currentBalance ELSE 0,
           IF "isStrict" \in DOMAIN envelope THEN envelope.isStrict ELSE FALSE)

\* storage.createEnvelope: the row inserted for the values
\* {...envelope, currentBalance: envelope.budgetAmount}; isStrict defaults
\* to false.
createEnvelope(envelope) ==
  Envelope(envelope.userId, envelope.name, envelope.budgetAmount,
           envelope.budgetAmount,
           IF "isStrict" \in DOMAIN envelope THEN envelope.isStrict ELSE FALSE)

\* The values seedUserData passes to createEnvelope: no currentBalance
SeedEnvelopeValues(userId) ==
  [i \in 1..Len(SeedEnvelopes(userId)) |->
     [f \in {"userId", "name", "budgetAmount", "isStrict"} |->
        SeedEnvelopes(userId)[i][f]]]

\* A list request reaches seedUserData:
\*   const existingAccounts = await this.getAccountsByUser(userId);
\*   if (existingAccounts.length > 0) return;
BeginSeed(userId, route) ==
  /\ seeding[userId][route] = "idle"
  /\ seeding' = [seeding EXCEPT ![userId][route] =
                   IF Len(getAccountsByUser(userId)) > 0 THEN "read" ELSE "accounts"]
  /\ UNCHANGED <<tables, userSettings, today, res>>

\* await Promise.all([createAccount x 3]): the rows are inserted together,
\* in the order written.
CreateAccounts(userId, route) ==
  /\ seeding[userId][route] = "accounts"
  /\ virtualAccounts' = WithIds(virtualAccounts \o SeedAccounts(userId))
  /\ seeding' = [seeding EXCEPT ![userId][route] = "envelopes"]
  /\ UNCHANGED <<envelopes, debts, bills, paySchedules, userSettings, today, res>>

\* await Promise.all([createEnvelope x 7])
CreateEnvelopes(userId, route) ==
  /\ seeding[userId][route] = "envelopes"
  /\ envelopes' =
       WithIds(envelopes
                 \o [i \in 1..Len(SeedEnvelopeValues(userId)) |->
                       createEnvelope(SeedEnvelopeValues(userId)[i])])
  /\ seeding' = [seeding EXCEPT ![userId][route] = "debts"]
  /\ UNCHANGED <<virtualAccounts, debts, bills, paySchedules, userSettings, today, res>>

\* await Promise.all([createDebt x 3])
CreateDebts(userId, route) ==
  /\ seeding[userId][route] = "debts"
  /\ debts' = WithIds(debts \o SeedDebts(userId))
  /\ seeding' = [seeding EXCEPT ![userId][route] = "bills"]
  /\ UNCHANGED <<virtualAccounts, envelopes, bills, paySchedules, userSettings, today, res>>

\* await Promise.all([createBill x 4]); seedUserData returns
CreateBills(userId, route) ==
  /\ seeding[userId][route] = "bills"
  /\ bills' = WithIds(bills \o SeedBills(userId))
  /\ seeding' = [seeding EXCEPT ![userId][route] = "read"]
  /\ UNCHANGED <<virtualAccounts, envelopes, debts, paySchedules, userSettings, today, res>>

\* The rows the route reads after seeding
ListOf(userId, route) ==
  CASE route = "accounts"  -> getAccountsByUser(userId)
    [] route = "envelopes" -> getEnvelopesByUser(userId)
    [] route = "debts"     -> getDebtsByUser(userId)
    [] route = "bills"     -> getBillsByUser(userId)

\* const list = await storage.get...ByUser(userId); res.json(list)
Respond(userId, route) ==
  /\ seeding[userId][route] = "read"
  /\ res' = Response(route, userId, 200, NoRequest, ListOf(userId, route),
                     <<"seedUserData", route>>, {})
  /\ seeding' = [seeding EXCEPT ![userId][route] = "idle"]
  /\ UNCHANGED <<tables, userSettings, today>>

\* app.post("/api/envelopes"): insertEnvelopeSchema.safeParse({...req.body,
\* userId}) wants a name and a budgetAmount; storage.createEnvelope
PostEnvelope(userId, body, failed) ==
  LET values == [f \in DOMAIN body \cup {"userId"} |->
                   IF f = "userId" THEN userId ELSE body[f]]
      created == [createEnvelope(values) EXCEPT !.id = Len(envelopes) + 1]
  IN  /\ failed \subseteq {"createEnvelope"}
      /\ IF ~({"name", "budgetAmount"} \subseteq DOMAIN body)
         THEN /\ res' = Response("post-envelope", userId, 400, body,
                                 Error("Invalid envelope data"), <<>>, {})
              /\ UNCHANGED envelopes
         ELSE IF failed # {}
         THEN /\ res' = Response("post-envelope", userId, 500, body,
                                 Error("Failed to create envelope"),
                                 <<"createEnvelope">>, failed)
              /\ UNCHANGED envelopes
         ELSE /\ envelopes' = Append(envelopes, created)
              /\ res' = Response("post-envelope", userId, 201, body, created,
                                 <<"createEnvelope">>, failed)
      /\ UNCHANGED <<virtualAccounts, debts, bills, paySchedules, userSettings,
                     today, seeding>>

\* ------------------------------------------------------------------------
\* The running system: u1 has signed in and been seeded, u2 has no rows yet.
\* ------------------------------------------------------------------------

\* The amounts a purchase check is asked for
Amounts == {Malformed, Num(78000), Num(90000)}

\* The days the runs take place on
StartDays == {[date |-> 14, daysInMonth |-> 30], [date |-> 29, daysInMonth |-> 30]}

Init ==
  /\ virtualAccounts = WithIds(SeedAccounts("u1"))
  /\ envelopes = WithIds(SeedEnvelopes("u1"))
  /\ debts = WithIds(SeedDebts("u1"))
  /\ bills = WithIds(SeedBills("u1"))
  /\ paySchedules = <<>>
  /\ userSettings = <<>>
  /\ today \in StartDays
  /\ res = NoResponse
  /\ seeding = NoSeeding
  /\ transactions = <<>>

Next ==
  \/ \E u \in Users, a \in Amounts, f \in Failures(SafeToSpendReads) :
       PostSafeToSpendCheck(u, a, f) /\ UNCHANGED <<seeding, transactions>>
  \/ \E u \in Users, f \in Failures(FundingPlanReads) :
       GetPaydayFundingPlan(u, f) /\ UNCHANGED <<seeding, transactions>>
  \/ \E u \in Users, f \in Failures(UrgentActionsReads) :
       GetUrgentActions(u, f) /\ UNCHANGED <<seeding, transactions>>
  \/ \E u \in Users, f \in Failures(<<"getUserSettings", "upsertUserSettings">>) :
       GetSettings(u, f) /\ UNCHANGED <<seeding, transactions>>
  \/ \E u \in Users, b \in BOOLEAN, f \in Failures(<<"upsertUserSettings">>) :
       PatchSettings(u, [safeToSpendWarning |-> b], f) /\ UNCHANGED <<seeding, transactions>>
  \/ \E u \in Users, id \in {1, 5}, b \in BOOLEAN, f \in Failures(<<"updateBill">>) :
       PatchBill(u, id, [isPaid |-> b], f) /\ UNCHANGED <<seeding, transactions>>
  \/ \E u \in Users, id \in {2, 5}, f \in Failures(<<"updateAccount">>) :
       PatchAccount(u, id, [balance |-> 12801], f) /\ UNCHANGED <<seeding, transactions>>

Spec == Init /\ [][Next]_vars

\* ------------------------------------------------------------------------
\* Purchase checks over the snapshots a user can have
\* ------------------------------------------------------------------------

MaxEnvelopes == 2

MaxBills == 2

MaxDebts == 2

MaxSchedules == 2

\* The spending account a user may have, and the bills account
SpendingKinds(userId) ==
  <<Account(userId, "spending", 12801), Account(userId, "spending", 85000)>>

BillsAccountKinds(userId) ==
  <<Account(userId, "bills", 250000)>>

\* A strict envelope, a funded one, an empty one and an overdrawn one
EnvelopeKinds(userId) ==
  <<Envelope(userId, "Rent/Mortgage", 150000, 150000, TRUE),
    Envelope(userId, "Entertainment", 15000, 2000, FALSE),
    Envelope(userId, "Gifts", 5000, 0, FALSE),
    Envelope(userId, "Dining", 10000, -2500, FALSE)>>

BillKinds(userId) ==
  <<Bill(userId, 150000, 1, <<>>, FALSE), Bill(userId, 8000, 10, <<>>, TRUE)>>

SettingsKinds(userId) ==
  <<[userId |-> userId, debtAttackMode |-> "avalanche", safeToSpendWarning |-> TRUE],
    [userId |-> userId, debtAttackMode |-> "snowball", safeToSpendWarning |-> FALSE]>>

\* The amounts of SafeToSpendCard's input
AffordAmounts ==
  {Malformed, Num(-500), Num(0), Num(2801), Num(5000), Num(60000), Num(75000),
   Num(78000), Num(90000)}

\* u1 has any of the snapshots, u2 a spending account of its own.
InitAfford ==
  /\ \E s \in Choices(SpendingKinds("u1"), 1), b \in Choices(BillsAccountKinds("u1"), 1) :
       virtualAccounts = WithIds(<<Account("u2", "spending", 1000)>>
                                   \o Pick(BillsAccountKinds("u1"), b)
                                   \o Pick(SpendingKinds("u1"), s))
  /\ \E e \in Choices(EnvelopeKinds("u1"), MaxEnvelopes) :
       envelopes = WithIds(Pick(EnvelopeKinds("u1"), e))
  /\ debts = WithIds(SeedDebts("u1"))
  /\ \E b \in Choices(BillKinds("u1"), MaxBills) :
       bills = WithIds(Pick(BillKinds("u1"), b))
  /\ paySchedules = <<>>
  /\ \E s \in Choices(SettingsKinds("u1"), 1) :
       userSettings = Pick(SettingsKinds("u1"), s)
  /\ today = [date |-> 14, daysInMonth |-> 30]
  /\ res = NoResponse
  /\ seeding = NoSeeding
  /\ transactions = <<>>

\* u1 asks, through the dashboard's card or of the route itself.
NextAfford ==
  \/ \E a \in AffordAmounts : PostSafeToSpendCheck("u1", a, {}) /\ UNCHANGED <<seeding, transactions>>
  \/ \E a \in AffordAmounts : HandleCheck("u1", a, {}) /\ UNCHANGED <<seeding, transactions>>

SpecAfford == InitAfford /\ [][NextAfford]_vars

\* ------------------------------------------------------------------------
\* Purchase checks around half the spending balance, to the cent
\* ------------------------------------------------------------------------

\* The small amounts run from -MaxCents to MaxCents cents
MaxCents == 20

\* The spending balances: the small ones, an odd and an even large one
BalanceCents == (-MaxCents..MaxCents) \cup {12801, 85000}

\* The purchase amounts: the small ones, and the cents around the halves
PurchaseCents == (-MaxCents..MaxCents) \cup {6400, 6401, 42500, 42501}

\* u1 has a spending account, no bills account, and an unpaid bill or none.
InitHalf ==
  /\ \E s \in BalanceCents :
       virtualAccounts = WithIds(<<Account("u1", "spending", s)>>)
  /\ envelopes = <<>>
  /\ debts = <<>>
  /\ \E b \in Choices(BillKinds("u1"), 1) : bills = WithIds(Pick(BillKinds("u1"), b))
  /\ paySchedules = <<>>
  /\ userSettings = <<>>
  /\ today = [date |-> 14, daysInMonth |-> 30]
  /\ res = NoResponse
  /\ seeding = NoSeeding
  /\ transactions = <<>>

NextHalf ==
  \E p \in PurchaseCents : PostSafeToSpendCheck("u1", Num(p), {}) /\ UNCHANGED <<seeding, transactions>>

SpecHalf == InitHalf /\ [][NextHalf]_vars

\* ------------------------------------------------------------------------
\* Funding plans over the bills, debts and pay schedules a user can have
\* ------------------------------------------------------------------------

PlanBillKinds(userId) ==
  <<Bill(userId, 120000, 1, <<>>, FALSE), Bill(userId, 12010, 15, <<12>>, FALSE),
    Bill(userId, 8000, 10, <<>>, TRUE), Bill(userId, 1, 28, <<0>>, FALSE),
    Bill(userId, 3000, 28, <<14>>, FALSE), Bill(userId, 2500, 28, <<15>>, FALSE)>>

DebtKinds(userId) ==
  <<Debt(userId, 50000, 15), Debt(userId, 5000, 12), Debt(userId, 45020, 5),
    Debt(userId, 10000, 2)>>

ScheduleKinds(userId) ==
  <<PaySchedule(userId, 200000, 15), PaySchedule(userId, 17000, 1),
    PaySchedule(userId, 120033, 20)>>

InitPlan ==
  /\ virtualAccounts = WithIds(SeedAccounts("u1"))
  /\ envelopes = <<>>
  /\ \E d \in Choices(DebtKinds("u1"), MaxDebts) :
       debts = WithIds(<<Debt("u2", 30000, 1)>> \o Pick(DebtKinds("u1"), d))
  /\ \E b \in Choices(PlanBillKinds("u1"), MaxBills) :
       bills = WithIds(Pick(PlanBillKinds("u1"), b))
  /\ \E p \in Choices(ScheduleKinds("u1"), MaxSchedules) :
       paySchedules = WithIds(Pick(ScheduleKinds("u1"), p))
  /\ userSettings = <<>>
  /\ today \in StartDays
  /\ res = NoResponse
  /\ seeding = NoSeeding
  /\ transactions = <<>>

NextPlan ==
  \E u \in Users, f \in Failures(FundingPlanReads) :
    GetPaydayFundingPlan(u, f) /\ UNCHANGED <<seeding, transactions>>

SpecPlan == InitPlan /\ [][NextPlan]_vars

\* ------------------------------------------------------------------------
\* Urgent actions over the bills and debts a user can have, on any day
\* ------------------------------------------------------------------------

UrgentBillKinds(userId) ==
  <<Bill(userId, 150000, 1, <<>>, FALSE), Bill(userId, 12000, 15, <<>>, FALSE),
    Bill(userId, 15000, 20, <<12>>, FALSE), Bill(userId, 8000, 10, <<>>, TRUE),
    Bill(userId, 4000, 31, <<0>>, FALSE), Bill(userId, 6000, 30, <<>>, FALSE)>>

\* Every day of a month of 28 or of 31 days
Days ==
  {[date |-> d, daysInMonth |-> n] : d \in 1..31, n \in {28, 31}}

InitUrgent ==
  /\ virtualAccounts = <<>>
  /\ envelopes = <<>>
  /\ \E d \in Choices(DebtKinds("u1"), MaxDebts) :
       debts = WithIds(Pick(DebtKinds("u1"), d))
  /\ \E b \in Choices(UrgentBillKinds("u1"), MaxBills) :
       bills = WithIds(Pick(UrgentBillKinds("u1"), b))
  /\ paySchedules = <<>>
  /\ userSettings = <<>>
  /\ today \in {t \in Days : t.date <= t.daysInMonth}
  /\ res = NoResponse
  /\ seeding = NoSeeding
  /\ transactions = <<>>

NextUrgent ==
  \E u \in Users, f \in Failures(UrgentActionsReads) :
    GetUrgentActions(u, f) /\ UNCHANGED <<seeding, transactions>>

SpecUrgent == InitUrgent /\ [][NextUrgent]_vars

\* storage.createTransaction: db.insert(transactions).values(transaction);
\* isWriteOff defaults to false, envelopeId and accountId to null (<<>>).
createTransaction(transaction) ==
  Append(transactions,
         [id          |-> Len(transactions) + 1,
          userId      |-> transaction.userId,
          description |-> transaction.description,
          amount      |-> transaction.amount,
          type        |-> transaction.type,
          envelopeId  |-> IF "envelopeId" \in DOMAIN transaction
                          THEN transaction.envelopeId ELSE <<>>,
          accountId   |-> IF "accountId" \in DOMAIN transaction
                          THEN transaction.accountId ELSE <<>>,
          isWriteOff  |-> FALSE])

\* app.post("/api/transactions"): insertTransactionSchema.safeParse({...
\* req.body, userId}) wants a description, an amount and a type;
\* storage.createTransaction
PostTransaction(userId, body, failed) ==
  LET values  == [f \in DOMAIN body \cup {"userId"} |->
                    IF f = "userId" THEN userId ELSE body[f]]
      written == createTransaction(values)
  IN  /\ failed \subseteq {"createTransaction"}
      /\ IF ~({"description", "amount", "type"} \subseteq DOMAIN body)
         THEN /\ res' = Response("post-transaction", userId, 400, body,
                                 Error("Invalid transaction data"), <<>>, {})
              /\ UNCHANGED transactions
         ELSE IF failed # {}
         THEN /\ res' = Response("post-transaction", userId, 500, body,
                                 Error("Failed to create transaction"),
                                 <<"createTransaction">>, failed)
              /\ UNCHANGED transactions
         ELSE /\ transactions' = written
              /\ res' = Response("post-transaction", userId, 201, body,
                                 written[Len(written)], <<"createTransaction">>, failed)
      /\ UNCHANGED <<virtualAccounts, envelopes, debts, bills, paySchedules,
                     userSettings, today, seeding>>

\* ------------------------------------------------------------------------
\* Spending: transactions recorded between purchase checks
\* ------------------------------------------------------------------------

\* How many transactions are recorded in a run
MaxTransactions == 2

\* The bodies of POST /api/transactions: an expense against the
\* Entertainment envelope and the spending account, one against the
\* envelope alone, one against the account alone, an income, and a body
\* without an amount
TransactionBodies ==
  {[description |-> "Cinema", amount |-> 2000, type |-> "expense",
    envelopeId |-> <<7>>, accountId |-> <<2>>],
   [description |-> "Cinema", amount |-> 2000, type |-> "expense", envelopeId |-> <<7>>],
   [description |-> "Fuel", amount |-> 80000, type |-> "expense", accountId |-> <<2>>],
   [description |-> "Refund", amount |-> 5000, type |-> "income", accountId |-> <<2>>],
   [description |-> "Cinema", type |-> "expense"]}

\* The amounts asked about between the transactions
SpendAmounts == {Num(5000), Num(20000), Num(100000)}

\* u1 has signed in and been seeded.
InitSpend ==
  /\ virtualAccounts = WithIds(SeedAccounts("u1"))
  /\ envelopes = WithIds(SeedEnvelopes("u1"))
  /\ debts = WithIds(SeedDebts("u1"))
  /\ bills = WithIds(SeedBills("u1"))
  /\ paySchedules = <<>>
  /\ userSettings = <<DefaultSettings("u1")>>
  /\ today = [date |-> 14, daysInMonth |-> 30]
  /\ res = NoResponse
  /\ seeding = NoSeeding
  /\ transactions = <<>>

NextSpend ==
  \/ \E b \in TransactionBodies, f \in Failures(<<"createTransaction">>) :
       Len(transactions) < MaxTransactions /\ PostTransaction("u1", b, f)
  \/ \E a \in SpendAmounts :
       PostSafeToSpendCheck("u1", a, {}) /\ UNCHANGED <<seeding, transactions>>

SpecSpend == InitSpend /\ [][NextSpend]_vars

\* ------------------------------------------------------------------------
\* First sign-in: the dashboard's list requests of a user without rows, and
\* envelopes posted meanwhile
\* ------------------------------------------------------------------------

\* How many envelopes are posted in a run
MaxPosted == 2

\* The bodies of POST /api/envelopes: the form's, one with a currentBalance
\* of its own, one with another and strict, one without a budgetAmount
EnvelopeBodies ==
  {[name |-> "Vacation", budgetAmount |-> 30000],
   [name |-> "Vacation", budgetAmount |-> 30000, currentBalance |-> 0],
   [name |-> "Vacation", budgetAmount |-> 30000, currentBalance |-> 99900,
    isStrict |-> TRUE],
   [name |-> "Vacation"]}

\* The envelopes that were posted
Posted == {i \in 1..Len(envelopes) : envelopes[i].name = "Vacation"}

InitSeed ==
  /\ virtualAccounts = <<>>
  /\ envelopes = <<>>
  /\ debts = <<>>
  /\ bills = <<>>
  /\ paySchedules = <<>>
  /\ userSettings = <<>>
  /\ today = [date |-> 14, daysInMonth |-> 30]
  /\ res = NoResponse
  /\ seeding = NoSeeding
  /\ transactions = <<>>

\* u1 signs in and the dashboard sends its four list requests, time and
\* again, which the server handles in any interleaving.
NextSeed ==
  \/ \E r \in Routes : BeginSeed("u1", r) /\ UNCHANGED transactions
  \/ \E r \in Routes : CreateAccounts("u1", r) /\ UNCHANGED transactions
  \/ \E r \in Routes : CreateEnvelopes("u1", r) /\ UNCHANGED transactions
  \/ \E r \in Routes : CreateDebts("u1", r) /\ UNCHANGED transactions
  \/ \E r \in Routes : CreateBills("u1", r) /\ UNCHANGED transactions
  \/ \E r \in Routes : Respond("u1", r) /\ UNCHANGED transactions

SpecSeed == InitSeed /\ [][NextSeed]_vars

\* u1 opens the envelopes page, which lists the envelopes; either user
\* posts envelopes, before, during or after.
NextEnvelopes ==
  \/ BeginSeed("u1", "envelopes") /\ UNCHANGED transactions
  \/ CreateAccounts("u1", "envelopes") /\ UNCHANGED transactions
  \/ CreateEnvelopes("u1", "envelopes") /\ UNCHANGED transactions
  \/ CreateDebts("u1", "envelopes") /\ UNCHANGED transactions
  \/ CreateBills("u1", "envelopes") /\ UNCHANGED transactions
  \/ Respond("u1", "envelopes") /\ UNCHANGED transactions
  \/ \E u \in Users, b \in EnvelopeBodies, f \in Failures(<<"createEnvelope">>) :
       /\ Cardinality(Posted) < MaxPosted /\ PostEnvelope(u, b, f)
       /\ UNCHANGED transactions

SpecEnvelopes == InitSeed /\ [][NextEnvelopes]_vars

\* ------------------------------------------------------------------------
\* Properties of seeding and of envelope creation (under SpecSeed and
\* SpecEnvelopes)
\* ------------------------------------------------------------------------

\* The types of the seeded accounts
AccountTypes == {"bills", "spending", "savings"}

\* C11 as claimed: in every reachable state a user has at most one account
\* of type "spending", and at most one of each seeded type, however the
\* first sign-in's list requests interleave.
C11_OneAccountPerType ==
  \A u \in Users, t \in AccountTypes :
    Cardinality({i \in 1..Len(virtualAccounts) :
                   virtualAccounts[i].userId = u /\ virtualAccounts[i].type = t}) <= 1

\* How many example records seedUserData gives a user, by list route
SeedCount(route) ==
  CASE route = "accounts"  -> Len(SeedAccounts("u1"))
    [] route = "envelopes" -> Len(SeedEnvelopes("u1"))
    [] route = "debts"     -> Len(SeedDebts("u1"))
    [] route = "bills"     -> Len(SeedBills("u1"))

\* C23 as claimed: the response of a list request of a user who had no
\* data holds the seeded example records, 3 accounts, 7 envelopes, 3 debts
\* or 4 bills at the least, however the requests interleave; none is
\* answered with an empty list.
C23_SeededListReturned ==
  (res.op \in Routes /\ res.code = 200) => Len(res.body) >= SeedCount(res.op)

\* The row of a table with an id
ById(table, id) == CHOOSE r \in Range(table) : r.id = id

\* C24 as claimed: a recorded expense takes its amount off the
\* currentBalance of the envelope it names and changes the balance of the
\* account it names.
C24_BalancesFollow ==
  [][(/\ res'.op = "post-transaction" /\ res'.code = 201
      /\ transactions' # transactions /\ res'.body.type = "expense")
       => /\ res'.body.envelopeId # <<>>
               => ById(envelopes', res'.body.envelopeId[1]).currentBalance
                    = ById(envelopes, res'.body.envelopeId[1]).currentBalance
                        - res'.body.amount
          /\ res'.body.accountId # <<>>
               => ById(virtualAccounts', res'.body.accountId[1]).balance
                    # ById(virtualAccounts, res'.body.accountId[1]).balance]_vars

\* C14: every envelope a step adds to the table has currentBalance equal to
\* its budgetAmount, and the envelope returned by POST /api/envelopes has
\* currentBalance equal to the budgetAmount of the request, whatever
\* currentBalance the request carried.
C14_CreatedAtBudget ==
  [][/\ \A i \in (Len(envelopes) + 1)..Len(envelopes') :
          envelopes'[i].currentBalance = envelopes'[i].budgetAmount
     /\ (res'.op = "post-envelope" /\ res'.code = 201)
          => res'.body.currentBalance = res'.req.budgetAmount]_vars

\* C14 happens: after seeding, an envelope posted with a currentBalance
\* other than its budgetAmount is stored at its budgetAmount.
C14_Witness ==
  /\ res.op = "post-envelope" /\ res.code = 201
  /\ "currentBalance" \in DOMAIN res.req
  /\ res.req.currentBalance # res.req.budgetAmount
  /\ res.body.currentBalance = res.body.budgetAmount
  /\ envelopes[Len(envelopes)] = res.body
  /\ \E i \in 1..Len(envelopes) : envelopes[i].name = "Groceries"

\* ------------------------------------------------------------------------
\* Properties of the purchase check (under SpecAfford)
\* ------------------------------------------------------------------------

\* The response at hand is a verdict on a purchase.
Checked == res.op = "safe-to-spend-check" /\ res.code = 200

\* The stored balance, in cents, of the user's first account of a type; 0
\* without one.
StoredBalance(userId, type) ==
  LET own == SelectSeq(virtualAccounts,
                       LAMBDA a : a.userId = userId /\ a.type = type)
  IN  IF own = <<>> THEN 0 ELSE own[1].balance

\* The user's non-strict envelopes with 0 < currentBalance < cents
Affected(userId, cents) ==
  {i \in 1..Len(envelopes) :
     /\ envelopes[i].userId = userId /\ ~envelopes[i].isStrict
     /\ 0 < envelopes[i].currentBalance /\ envelopes[i].currentBalance < cents}

\* The verdict the check gives the user now for another amount
CheckNow(userId, amount) ==
  SafeToSpendCheck(getAccountsByUser(userId), getEnvelopesByUser(userId),
                   getDebtsByUser(userId), getBillsByUser(userId),
                   getUserSettings(userId), amount)

\* yes > warning > no
Rank(status) == IF status = "yes" THEN 2 ELSE IF status = "warning" THEN 1 ELSE 0

\* C1: a purchase amount greater than the stored spending balance (0 without
\* a spending account) gets status "no" and canBuy false, whatever the
\* envelopes, bills, debts and settings are.
C1_ExceedsIsNo ==
  (Checked /\ res.req.kind = "num"
     /\ res.req.cents > StoredBalance(res.userId, "spending"))
    => (res.body.status = "no" /\ res.body.canBuy = FALSE)

\* C1 happens: a verdict on an amount above the balance that also exceeds
\* the room of a non-strict envelope.
C1_Witness ==
  /\ Checked /\ res.req.kind = "num"
  /\ res.req.cents > StoredBalance(res.userId, "spending")
  /\ Affected(res.userId, res.req.cents) # {}
  /\ res.body.status = "no"

\* C2 as claimed: an amount within the spending balance that leaves at least
\* 100 and exceeds no non-strict envelope's positive balance gets "yes",
\* whatever the bills account and the unpaid bills are.
C2_YesWhateverTheBills ==
  (Checked /\ res.req.kind = "num"
     /\ res.req.cents <= StoredBalance(res.userId, "spending")
     /\ FGe(res.body.remainingAfter, FInt(100))
     /\ Affected(res.userId, res.req.cents) = {})
    => res.body.status = "yes"

\* The bills-account rule applies: the bills account holds less than the
\* unpaid bills come to, and the amount is more than what it leaves and
\* more than half the spending balance, compared as JavaScript numbers.
BillsRuleApplies(userId, cents) ==
  LET unpaid   == Filter(getBillsByUser(userId), LAMBDA b : ~b.isPaid)
      spending == ParseCents(StoredBalance(userId, "spending"))
  IN  /\ FLt(ParseCents(StoredBalance(userId, "bills")),
             FSum(Map(unpaid, LAMBDA b : b.amount)))
      /\ FGt(ParseCents(cents), FSub(spending, ParseCents(cents)))
      /\ FGt(ParseCents(cents), FHalf(spending))

\* C2 as amended: an amount within the spending balance whose returned
\* remainingAfter is at least 100, that exceeds no non-strict envelope's
\* positive balance and to which the bills-account rule does not apply,
\* gets "yes".
C2_YesUnlessBillsRule ==
  (Checked /\ res.req.kind = "num"
     /\ res.req.cents <= StoredBalance(res.userId, "spending")
     /\ FGe(res.body.remainingAfter, FInt(100))
     /\ Affected(res.userId, res.req.cents) = {}
     /\ ~BillsRuleApplies(res.userId, res.req.cents))
    => res.body.status = "yes"

\* C2 happens: "yes" for a positive amount while the bills account is short
\* of the unpaid bills and the low-balance warning is on.
C2_Witness ==
  /\ Checked /\ res.req.kind = "num" /\ res.req.cents > 0
  /\ res.req.cents <= StoredBalance(res.userId, "spending")
  /\ FGe(res.body.remainingAfter, FInt(100))
  /\ FLt(ParseCents(StoredBalance(res.userId, "bills")), res.body.upcomingBills)
  /\ getUserSettings(res.userId) # <<>>
  /\ getUserSettings(res.userId)[1].safeToSpendWarning
  /\ res.body.status = "yes"

\* C3 as claimed: a request whose amount is zero, negative or malformed is
\* answered with a validation error (a 4xx), never with a verdict.
C3_InvalidAmountRejected ==
  (res.op = "safe-to-spend-check" /\ ~FGt(parseFloat(res.req), FZero))
    => res.code \in 400..499

\* C4: for the snapshot at hand and two positive amounts a1 <= a2, the
\* verdict for a2 is never better than the one for a1 (yes > warning > no).
C4_Monotone ==
  (Checked /\ res.req.kind = "num" /\ res.req.cents > 0)
    => \A a \in AffordAmounts :
         (a.kind = "num" /\ 0 < a.cents /\ a.cents <= res.req.cents)
           => Rank(CheckNow(res.userId, a).status) >= Rank(res.body.status)

\* C4 happens: a "warning" for an amount, "yes" for a smaller positive one.
C4_Witness ==
  /\ Checked /\ res.req.kind = "num" /\ res.body.status = "warning"
  /\ \E a \in AffordAmounts :
       /\ a.kind = "num" /\ 0 < a.cents /\ a.cents < res.req.cents
       /\ CheckNow(res.userId, a).status = "yes"

WarningsOf(kind) ==
  {i \in 1..Len(res.body.warnings) : res.body.warnings[i].kind = kind}

\* C15 as claimed, remainingAfter being the decimal difference of the stored
\* spending balance and the amount: for an amount within the balance, with
\* safeToSpendWarning true the status is "warning" with the low-balance
\* warning whenever less than 100.00 remains and the rule does not fire when
\* 100.00 or more remains; with safeToSpendWarning false it never fires.
C15_LowBalanceBoundary ==
  (Checked /\ res.req.kind = "num" /\ getUserSettings(res.userId) # <<>>
     /\ res.req.cents <= StoredBalance(res.userId, "spending"))
    => LET remaining == StoredBalance(res.userId, "spending") - res.req.cents
       IN  IF getUserSettings(res.userId)[1].safeToSpendWarning
           THEN /\ remaining < 10000
                     => (res.body.status = "warning" /\ WarningsOf("low") # {})
                /\ remaining >= 10000 => WarningsOf("low") = {}
           ELSE WarningsOf("low") = {}

\* The status after the balance rules, read off the stored balance and the
\* response's warnings
StatusAfterBalance ==
  IF res.req.cents > StoredBalance(res.userId, "spending") THEN "no"
  ELSE IF WarningsOf("low") # {} THEN "warning" ELSE "yes"

\* C16: the envelope warning is in the response exactly when the amount is
\* within the spending balance (the status after the balance rules is not
\* "no") and some non-strict envelope has 0 < currentBalance < amount; the
\* status is then "warning" and the warning names exactly those envelopes.
C16_EnvelopeRule ==
  (Checked /\ res.req.kind = "num")
    => LET applies == /\ StatusAfterBalance # "no"
                      /\ Affected(res.userId, res.req.cents) # {}
       IN  /\ WarningsOf("short") # {} <=> applies
           /\ applies
                => /\ res.body.status = "warning"
                   /\ \A i \in WarningsOf("short") :
                        Range(res.body.warnings[i].names)
                          = {envelopes[j].name :
                               j \in Affected(res.userId, res.req.cents)}

\* C16 happens: an envelope warning while the user also has a strict
\* envelope or one with nothing left, which the warning does not name.
C16_Witness ==
  /\ Checked /\ res.req.kind = "num" /\ WarningsOf("short") # {}
  /\ res.body.status = "warning"
  /\ \E j \in 1..Len(envelopes) :
       /\ envelopes[j].userId = res.userId
       /\ envelopes[j].isStrict \/ envelopes[j].currentBalance <= 0
       /\ envelopes[j].currentBalance < res.req.cents
       /\ \A i \in WarningsOf("short") :
            envelopes[j].name \notin Range(res.body.warnings[i].names)

\* The status after the balance and envelope rules
StatusAfterEnvelopes ==
  IF StatusAfterBalance # "no" /\ WarningsOf("short") # {} THEN "warning"
  ELSE StatusAfterBalance

\* C17: when the bills-account condition holds the response carries the
\* bills-account warning, last and once, and its status is "warning" where
\* the earlier rules gave "yes" and theirs otherwise; when the condition
\* does not hold there is no such warning and the status is theirs.
C17_BillsRule ==
  (Checked /\ res.req.kind = "num")
    => IF BillsRuleApplies(res.userId, res.req.cents)
       THEN /\ WarningsOf("bills") = {Len(res.body.warnings)}
            /\ res.body.status = IF StatusAfterEnvelopes = "yes" THEN "warning"
                                  ELSE StatusAfterEnvelopes
       ELSE /\ WarningsOf("bills") = {}
            /\ res.body.status = StatusAfterEnvelopes

\* C17 happens: the condition holds for an amount above the balance, and
\* the status stays "no" with the bills-account warning added.
C17_Witness ==
  /\ Checked /\ res.req.kind = "num"
  /\ BillsRuleApplies(res.userId, res.req.cents)
  /\ res.body.status = "no" /\ WarningsOf("bills") # {}

\* C18: a result with status "warning" or "no" has a warning, and its
\* recommendation quotes the first of them, never the fallback text; with
\* status "no" the first warning is the exceeds-spending-balance message.
C18_FirstWarningQuoted ==
  (Checked /\ res.body.status \in {"warning", "no"})
    => /\ res.body.warnings # <<>>
       /\ res.body.recommendation.quote = <<res.body.warnings[1]>>
       /\ res.body.status = "no" => res.body.warnings[1].kind = "exceeds"

\* C18 happens: a "warning" whose only warning is the bills-account one.
C18_Witness ==
  /\ Checked /\ res.body.status = "warning"
  /\ WarningsOf("bills") = {1}
  /\ res.body.recommendation.quote = <<res.body.warnings[1]>>

\* The user's envelopes that are not strict
NonStrict(envs) == Filter(envs, LAMBDA e : ~e.isStrict)

RECURSIVE SumCents(_)
SumCents(cents) == IF cents = <<>> THEN 0 ELSE cents[1] + SumCents(Tail(cents))

\* What the user's rows come to, in cents
IncomeCents(userId) ==
  SumCents(Map(Filter(paySchedules, LAMBDA p : p.userId = userId), LAMBDA p : p.amount))

UnpaidBillsCents(userId) ==
  SumCents(Map(Filter(bills, LAMBDA b : b.userId = userId /\ ~b.isPaid),
               LAMBDA b : b.amount))

DebtPaymentsCents(userId) ==
  SumCents(Map(Filter(debts, LAMBDA d : d.userId = userId), LAMBDA d : d.minimumPayment))

C29_HalfRule ==
  (Checked /\ res.req.kind = "num")
    => LET more == 2 * res.req.cents > StoredBalance(res.userId, "spending")
       IN  /\ FGt(res.body.purchaseAmount, res.body.remainingAfter) <=> more
           /\ FGt(res.body.purchaseAmount, FHalf(res.body.safeToSpend)) <=> more
           /\ WarningsOf("bills") # {}
                <=> /\ StoredBalance(res.userId, "bills") < UnpaidBillsCents(res.userId)
                    /\ more

\* C29 happens: the warning for the first cent above half an odd balance.
C29_Witness ==
  /\ Checked /\ res.req.kind = "num"
  /\ 2 * res.req.cents = StoredBalance(res.userId, "spending") + 1
  /\ res.req.cents > MaxCents
  /\ WarningsOf("bills") # {}

\* The response at hand is a funding plan.
Planned == res.op = "payday-funding-plan" /\ res.code = 200

\* The places in the table of the user's pay schedules
SchedulesOf(userId) ==
  {i \in 1..Len(paySchedules) : paySchedules[i].userId = userId}

\* C21: the plan's nextPayday is null when the user has no pay schedule and
\* otherwise the nextPayday of the user's first schedule in the store's
\* order, earliest or not; expectedIncome is the sum of all the schedules.
C21_FirstSchedule ==
  Planned
    => /\ res.body.nextPayday =
            IF SchedulesOf(res.userId) = {} THEN <<>>
            ELSE <<paySchedules[CHOOSE i \in SchedulesOf(res.userId) :
                                  \A j \in SchedulesOf(res.userId) : i <= j].nextPayday>>
       /\ ToFixed2(res.body.expectedIncome) = <<IncomeCents(res.userId)>>

\* C21 happens: of two schedules the first is not the earliest, and the
\* plan names the first one's payday and the income of both.
C21_Witness ==
  /\ Planned /\ Cardinality(SchedulesOf(res.userId)) = 2
  /\ \E i \in SchedulesOf(res.userId) :
       <<paySchedules[i].nextPayday>> # res.body.nextPayday
         /\ paySchedules[i].nextPayday < res.body.nextPayday[1]
  /\ IncomeCents(res.userId) = 217000
  /\ ToFixed2(res.body.expectedIncome) = <<217000>>

\* The stored row with an id, of a table
RowOf(table, id) == CHOOSE r \in Range(table) : r.id = id

UrgencyRank(action) ==
  CASE action.urgency = "today" -> 0
    [] action.urgency = "urgent" -> 1
    [] action.urgency = "warning" -> 2

\* C7: the list of urgent actions is sorted ascending by urgency rank and,
\* among actions of one rank, ascending by daysUntil.
C7_Sorted ==
  (res.op = "urgent-actions" /\ res.code = 200)
    => \A i, j \in 1..Len(res.body) :
         i < j => \/ UrgencyRank(res.body[i]) < UrgencyRank(res.body[j])
                  \/ /\ UrgencyRank(res.body[i]) = UrgencyRank(res.body[j])
                     /\ res.body[i].daysUntil <= res.body[j].daysUntil

\* C7 happens: a list of three or more actions where an urgent one is
\* further off than a warning one.
C7_Witness ==
  /\ res.op = "urgent-actions" /\ res.code = 200 /\ Len(res.body) >= 3
  /\ \E i, j \in 1..Len(res.body) :
       /\ res.body[i].urgency = "urgent" /\ res.body[j].urgency = "warning"
       /\ res.body[i].daysUntil > res.body[j].daysUntil

\* The response at hand is a list of urgent actions.
Ranked == res.op = "urgent-actions" /\ res.code = 200

\* The days from the day of the response until a day of the month, into the
\* next month when the day is past
DaysUntil(day) ==
  IF day >= res.at.date THEN day - res.at.date
  ELSE res.at.daysInMonth - res.at.date + day

\* The places in the response of the items of a row
ItemsOf(type, id) ==
  {k \in 1..Len(res.body) : res.body[k].type = type /\ res.body[k].id = id}

\* The class of a bill: by its due day and its must-have-by day (the due
\* day when unset), the first rule that matches
BillUrgency(bill) ==
  LET daysUntil         == DaysUntil(bill.dueDay)
      mustHaveDaysUntil == DaysUntil(IF bill.mustHaveByDay = <<>> THEN bill.dueDay
                                     ELSE bill.mustHaveByDay[1])
  IN  IF daysUntil = 0 \/ mustHaveDaysUntil = 0 THEN "today"
      ELSE IF daysUntil <= 3 \/ mustHaveDaysUntil <= 2 THEN "urgent"
      ELSE IF daysUntil <= 7 THEN "warning"
      ELSE "none"

\* C12: every unpaid bill of the user, its mustHaveByDay unset or a day of
\* the month, has no item when its class is none and otherwise one item,
\* of its class: "today", "urgent" or "warning" by the first matching rule.
C12_BillClassified ==
  Ranked
    => \A i \in 1..Len(bills) :
         (/\ bills[i].userId = res.userId /\ ~bills[i].isPaid
          /\ bills[i].mustHaveByDay # <<0>>)
           => IF BillUrgency(bills[i]) = "none"
              THEN ItemsOf("bill", bills[i].id) = {}
              ELSE /\ Cardinality(ItemsOf("bill", bills[i].id)) = 1
                   /\ \A k \in ItemsOf("bill", bills[i].id) :
                        res.body[k].urgency = BillUrgency(bills[i])

\* C12 happens: a bill is "urgent" by its must-have-by day alone, its due
\* day being more than a week off.
C12_Witness ==
  /\ Ranked
  /\ \E i \in 1..Len(bills) :
       /\ bills[i].userId = res.userId /\ ~bills[i].isPaid
       /\ bills[i].mustHaveByDay \notin {<<>>, <<0>>}
       /\ DaysUntil(bills[i].dueDay) > 7
       /\ \E k \in ItemsOf("bill", bills[i].id) : res.body[k].urgency = "urgent"

\* C13 as claimed: a debt has an item exactly when dueDay <= currentDay + 3,
\* "today" or "urgent", and no debt has a "warning" item.
C13_DebtWithinThreeDays ==
  Ranked
    => \A i \in 1..Len(debts) :
         debts[i].userId = res.userId
           => /\ ItemsOf("debt", debts[i].id) # {}
                   <=> debts[i].dueDay <= res.at.date + 3
              /\ \A k \in ItemsOf("debt", debts[i].id) :
                   res.body[k].urgency \in {"today", "urgent"}

\* C13 as amended: a debt has an item exactly when daysUntil <= 3, daysUntil
\* wrapping into the next month; the item is "today" when daysUntil = 0 and
\* "urgent" otherwise, never "warning".
C13_DebtDaysUntil ==
  Ranked
    => \A i \in 1..Len(debts) :
         debts[i].userId = res.userId
           => /\ ItemsOf("debt", debts[i].id) # {}
                   <=> DaysUntil(debts[i].dueDay) <= 3
              /\ Cardinality(ItemsOf("debt", debts[i].id)) <= 1
              /\ \A k \in ItemsOf("debt", debts[i].id) :
                   res.body[k].urgency
                     = IF DaysUntil(debts[i].dueDay) = 0 THEN "today" ELSE "urgent"

\* C13 happens: a debt due early next month is "urgent" while one whose
\* due day has passed this month has no item.
C13_Witness ==
  /\ Ranked
  /\ \E i, j \in 1..Len(debts) :
       /\ debts[i].userId = res.userId /\ debts[j].userId = res.userId
       /\ debts[i].dueDay < res.at.date /\ debts[j].dueDay < res.at.date
       /\ \E k \in ItemsOf("debt", debts[i].id) : res.body[k].urgency = "urgent"
       /\ ItemsOf("debt", debts[j].id) = {}

\* The row an item is about
RowOfItem(item) ==
  IF item.type = "bill" THEN RowOf(bills, item.id) ELSE RowOf(debts, item.id)

\* C30 as claimed: every item carries the days until its row's dueDay, by
\* the wraparound formula, whatever its urgency.
C30_DaysUntilDueDay ==
  Ranked
    => \A k \in 1..Len(res.body) :
         res.body[k].daysUntil = DaysUntil(RowOfItem(res.body[k]).dueDay)

\* C26 as claimed: every unpaid bill of the user, its mustHaveByDay unset
\* or a day of the month, is reported with urgency "today" on at least one
\* of the days 1..daysInMonth of the month at hand.
C26_TodayOnSomeDay ==
  Ranked
    => \A i \in 1..Len(bills) :
         (/\ bills[i].userId = res.userId /\ ~bills[i].isPaid
          /\ bills[i].mustHaveByDay # <<0>>)
           => \E d \in 1..res.at.daysInMonth :
                \E a \in Range(UrgentActions(getBillsByUser(res.userId),
                                              getDebtsByUser(res.userId),
                                              d, res.at.daysInMonth)) :
                  a.type = "bill" /\ a.id = bills[i].id /\ a.urgency = "today"

\* The funding plan of the user on the snapshot and day of the response
PlanNow(userId) ==
  PaydayFundingPlan(getBillsByUser(userId), getDebtsByUser(userId),
                    getPaySchedulesByUser(userId), res.at.date)

\* The plan's flag of a row: of the listed bill or debt with the id
PlanFlag(listed, id) ==
  {listed[k].isUrgent : k \in {j \in 1..Len(listed) : listed[j].id = id}}

\* C27 as claimed: every bill and every debt that the urgent actions
\* class "today" or "urgent" has isUrgent true in the funding plan of the
\* same snapshot and day.
C27_UrgentInBoth ==
  Ranked
    => \A k \in 1..Len(res.body) :
         res.body[k].urgency \in {"today", "urgent"}
           => IF res.body[k].type = "bill"
              THEN PlanFlag(PlanNow(res.userId).bills, res.body[k].id) = {"true"}
              ELSE PlanFlag(PlanNow(res.userId).debts, res.body[k].id) = {TRUE}

\* C27 as amended: every bill classed "today", or "urgent" with its due day
\* at most 3 days off, and every debt classed "today" or "urgent", has
\* isUrgent true in the funding plan of the same snapshot and day.
C27_UrgentByDueDayInBoth ==
  Ranked
    => \A k \in 1..Len(res.body) :
         /\ (/\ res.body[k].type = "bill"
             /\ \/ res.body[k].urgency = "today"
                \/ /\ res.body[k].urgency = "urgent"
                   /\ DaysUntil(RowOfItem(res.body[k]).dueDay) <= 3)
              => PlanFlag(PlanNow(res.userId).bills, res.body[k].id) = {"true"}
         /\ (res.body[k].type = "debt" /\ res.body[k].urgency \in {"today", "urgent"})
              => PlanFlag(PlanNow(res.userId).debts, res.body[k].id) = {TRUE}

\* C27 happens: at the end of the month a bill and a debt due early next
\* month are "urgent" and both are flagged in the plan.
C27_Witness ==
  /\ Ranked
  /\ \E k \in 1..Len(res.body) :
       /\ res.body[k].type = "bill" /\ res.body[k].urgency = "urgent"
       /\ RowOfItem(res.body[k]).dueDay < res.at.date
       /\ PlanFlag(PlanNow(res.userId).bills, res.body[k].id) = {"true"}
  /\ \E k \in 1..Len(res.body) :
       /\ res.body[k].type = "debt" /\ res.body[k].urgency = "urgent"
       /\ RowOfItem(res.body[k]).dueDay < res.at.date
       /\ PlanFlag(PlanNow(res.userId).debts, res.body[k].id) = {TRUE}

\* ------------------------------------------------------------------------
\* Properties of the decision requests in the running system (under Spec)
\* ------------------------------------------------------------------------

DecisionOps == {"safe-to-spend-check", "payday-funding-plan", "urgent-actions"}

\* The message of a decision route's catch block
FailureMessage(op) ==
  CASE op = "safe-to-spend-check" -> "Failed to check safe to spend"
    [] op = "payday-funding-plan" -> "Failed to get funding plan"
    [] op = "urgent-actions" -> "Failed to get urgent actions"

\* C9: a purchase check, a funding plan or an urgent-actions request leaves
\* every account, envelope, debt, bill and pay schedule of every user as it
\* was.
C9_ReadOnly == [][res'.op \in DecisionOps => UNCHANGED tables]_vars

\* C9 happens: a verdict for a user one of whose bills has been marked paid
\* and whose spending balance has been changed.
C9_Witness ==
  /\ res.op = "safe-to-spend-check" /\ res.code = 200 /\ res.req.kind = "num"
  /\ \E i \in 1..Len(bills) : bills[i].userId = res.userId /\ bills[i].isPaid
  /\ StoredBalance(res.userId, "spending") = 12801

\* The user's bills that are marked paid
PaidBills(userId) == {b \in Range(bills) : b.userId = userId /\ b.isPaid}

\* C19: the response to a decision request, which is computed from the
\* bills as they are stored when it is made, leaves the user's paid bills
\* out: the urgent actions have no item for one, the funding plan does not
\* list one and its billsFunding is the sum of the unpaid bills, and so is
\* the purchase check's upcomingBills.
C19_PaidBillsLeftOut ==
  /\ Ranked => \A b \in PaidBills(res.userId) : ItemsOf("bill", b.id) = {}
  /\ Planned
       => /\ \A b \in PaidBills(res.userId) :
               \A k \in 1..Len(res.body.bills) : res.body.bills[k].id # b.id
          /\ ToFixed2(res.body.billsFunding) = <<UnpaidBillsCents(res.userId)>>
  /\ Checked => ToFixed2(res.body.upcomingBills) = <<UnpaidBillsCents(res.userId)>>

\* C19 happens: the urgent actions asked for after the bill due in two days
\* was marked paid have no item for it.
C19_Witness ==
  /\ Ranked
  /\ \E b \in PaidBills(res.userId) :
       /\ DaysUntil(b.dueDay) \in 1..3
       /\ b \notin Range(WithIds(SeedBills(res.userId)))
       /\ ItemsOf("bill", b.id) = {}

\* The routes that read the settings with the snapshot, and the settings read
SettingsReaders == {"safe-to-spend-check", "payday-funding-plan", "settings"}

Untouched(before, after, userId) ==
  \A r \in Range(before) : r.userId # userId => r \in Range(after)

\* C25 as claimed: a request of a user leaves every record of every other
\* user as it was, owner included.
C25_OtherUsersUntouched ==
  [][/\ Untouched(virtualAccounts, virtualAccounts', res'.userId)
     /\ Untouched(envelopes, envelopes', res'.userId)
     /\ Untouched(debts, debts', res'.userId)
     /\ Untouched(bills, bills', res'.userId)
     /\ Untouched(paySchedules, paySchedules', res'.userId)]_vars

\* C10: a decision request one of whose reads fails ends in the failure
\* result, with no verdict, plan or list; every read was issued once; the
\* stored state is as it was.
C10_FailureResult ==
  [][(res'.op \in DecisionOps /\ res'.failed # {})
       => /\ res'.code = 500
          /\ res'.body = Error(FailureMessage(res'.op))
          /\ Cardinality(Range(res'.calls)) = Len(res'.calls)
          /\ UNCHANGED <<tables, userSettings>>]_vars

\* C10 happens: a decision request answered 500 after exactly one of several
\* reads failed.
C10_Witness ==
  /\ res.op \in DecisionOps /\ res.code = 500
  /\ Cardinality(res.failed) = 1 /\ Len(res.calls) > 1

====
